---- MODULE Spec2Model ----
(***************************************************************************)
(* A model of shecc's global tables (src/globals.c): the control-flow      *)
(* graph of basic blocks, the function hashmap, the scope tree and its     *)
(* variable resolver, the type table, the alias table, the symbol and      *)
(* instruction lists of a basic block, liveness, the IR arenas and the     *)
(* capacity of the tables.                                                 *)
(*                                                                         *)
(* Pointers are modelled as indices into the table that owns the object;   *)
(* NULL is 0.  abort() and error() end the process: once `aborted` is set  *)
(* no operation runs any more.                                             *)
(***************************************************************************)
EXTENDS Integers, Sequences, FiniteSets, TLC

VARIABLES
    bbs,        \* the basic blocks bb_create made, in creation order
    contract,   \* history: every bb_connect so far respected its caller contract
    aborted,    \* abort() was called: the process is gone
    last,       \* the most recent call: its name, arguments and outcome
    calls,      \* number of calls made so far (bounds the exploration)
    hm,         \* the hashmap (FUNCS_MAP), null before hashmap_create
    puts,       \* history: the (key, val) pairs put into hm, in call order
    funcs,      \* the func_t objects add_func allocated, in allocation order
    blocks,     \* the block_t objects add_block allocated, in allocation order
    BLOCKS,     \* the block list: its head and tail
    TYPES,      \* the type table, entries 0 .. types_idx - 1 (here 1 .. Len)
    ALIASES,    \* the alias table, entries 0 .. aliases_idx - 1 (here 1 .. Len)
    MACROS,     \* the macro table, entries 0 .. macros_idx - 1 (here 1 .. Len)
    symbols,    \* the symbol_t objects add_symbol allocated, in allocation order
    insns,      \* the insn_t objects add_insn allocated, in allocation order
    lists,      \* per basic block: its scope, symbol_list and insn_list
    liveness,   \* per variable: its liveness field
    ends,       \* history: per variable, its first liveness and the ends passed
    ir,         \* the arenas GLOBAL_IR, PH1_IR, PH2_IR up to their index
    idxs        \* the index of each other table (macros_idx, constants_idx, ...)

vars == <<bbs, contract, aborted, last, calls, hm, puts, funcs, blocks, BLOCKS,
          TYPES, ALIASES, MACROS, symbols, insns, lists, liveness, ends, ir, idxs>>

cfgVars == <<bbs, contract>>
mapVars == <<hm, puts>>
scopeVars == <<funcs, blocks, BLOCKS>>
tableVars == <<TYPES, ALIASES, MACROS>>
listVars == <<symbols, insns, lists>>
liveVars == <<liveness, ends>>
arenaVars == <<ir, idxs>>

NULL == 0

\* ------------------------------------------------------------------ bounds
MaxBB == 2
MaxCalls == 3
MaxOOB == 1
MaxJoin == 1
MaxMapSize == 2
MaxPuts == 3
MaxVal == 2
MaxScopeOps == 4
MaxTypes == 2
MaxAliases == 3
MaxInsns == 3
MaxParams == 2
MaxRound == 40
MaxEnd == 1
Capacity == 2
MaxAdds == 3
MaxDump == 4

\* ------------------------------------------------------- program constants
MAX_BB_PRED == 6

ConnTypes == {"NEXT", "THEN", "ELSE"}

\* ---------------------------------------------------------- basic blocks

PredSlots == 0 .. (MAX_BB_PRED - 1)

\* bb_create: calloc, then every predecessor slot set to (NULL, NEXT).
NewBB ==
    [prev |-> [i \in PredSlots |-> [bb |-> NULL, type |-> "NEXT"]],
     next |-> NULL, then_ |-> NULL, else_ |-> NULL]

Field(b, k) ==
    CASE k = "NEXT" -> b.next
      [] k = "THEN" -> b.then_
      [] k = "ELSE" -> b.else_

SetField(b, k, v) ==
    CASE k = "NEXT" -> [b EXCEPT !.next = v]
      [] k = "THEN" -> [b EXCEPT !.then_ = v]
      [] k = "ELSE" -> [b EXCEPT !.else_ = v]

Min(S) == CHOOSE x \in S : \A y \in S : x <= y

\* `while (succ->prev[i].bb) i++;`  When every slot of the array is occupied
\* the loop reads past the array; `oob` is the number of non-zero words it
\* meets there before a zero one.
FirstEmpty(b, oob) ==
    LET empty == {i \in DOMAIN b.prev : b.prev[i].bb = NULL}
    IN  IF empty # {} THEN Min(empty) ELSE MAX_BB_PRED + oob

TooManyPredOffByOne(i) == i > MAX_BB_PRED

\* `if (i > MAX_BB_PRED - 1)`
TooManyPred(i) == i > MAX_BB_PRED - 1

\* The slot written without its type: the slot keeps the type it had.
WriteSlotKeepType(prev, i, pred, type) ==
    [j \in (DOMAIN prev) \cup {i} |->
        IF j = i THEN [bb |-> pred, type |-> prev[i].type] ELSE prev[j]]

\* `succ->prev[i].bb = pred; succ->prev[i].type = type;`
WriteSlot(prev, i, pred, type) ==
    [j \in (DOMAIN prev) \cup {i} |->
        IF j = i THEN [bb |-> pred, type |-> type] ELSE prev[j]]

\* The switch with its `break`s missing: a case falls through the later ones.
LinkSuccFallthrough(b, type, succ) ==
    CASE type = "NEXT" -> [b EXCEPT !.next = succ, !.then_ = succ, !.else_ = succ]
      [] type = "THEN" -> [b EXCEPT !.then_ = succ, !.else_ = succ]
      [] type = "ELSE" -> [b EXCEPT !.else_ = succ]

\* The switch of bb_connect: the successor field of pred selected by type.
LinkSucc(b, type, succ) == SetField(b, type, succ)

UnlinkSuccAlwaysNext(b, type) == SetField(b, "NEXT", NULL)

\* The switch of bb_disconnect: the successor field named by the slot's type
\* is cleared.
UnlinkSucc(b, type) == SetField(b, type, NULL)

\* The caller contract of bb_connect ("The pred-succ pair must have only one
\* connection"; callers do not reconnect): the successor field is free and
\* the pair is not connected yet, in either direction's record.
ConnectContract(pred, succ, type) ==
    /\ Field(bbs[pred], type) = NULL
    /\ \A i \in DOMAIN bbs[succ].prev : bbs[succ].prev[i].bb # pred
    /\ \A k \in ConnTypes : Field(bbs[pred], k) # succ

BBs == 1 .. Len(bbs)

bb_create ==
    /\ ~aborted
    /\ Len(bbs) < MaxBB
    /\ bbs' = Append(bbs, NewBB)
    /\ last' = [op |-> "bb_create", ret |-> Len(bbs) + 1]
    /\ UNCHANGED <<contract, aborted>>

bb_connect(pred, succ, type, oob) ==
    /\ ~aborted
    /\ IF pred = NULL \/ succ = NULL
       THEN /\ aborted' = TRUE
            /\ last' = [op |-> "bb_connect", pred |-> pred, succ |-> succ,
                        type |-> type, ret |-> "abort"]
            /\ UNCHANGED <<bbs, contract>>
       ELSE LET i == FirstEmpty(bbs[succ], oob) IN
            IF TooManyPred(i)
            THEN /\ aborted' = TRUE
                 /\ last' = [op |-> "bb_connect", pred |-> pred, succ |-> succ,
                             type |-> type, ret |-> "abort"]
                 /\ UNCHANGED <<bbs, contract>>
            ELSE /\ bbs' = LET b1 == [bbs EXCEPT ![succ].prev =
                                         WriteSlot(@, i, pred, type)]
                           IN  [b1 EXCEPT ![pred] = LinkSucc(@, type, succ)]
                 /\ contract' = (contract /\ ConnectContract(pred, succ, type))
                 /\ last' = [op |-> "bb_connect", pred |-> pred, succ |-> succ,
                             type |-> type, ret |-> "ok"]
                 /\ UNCHANGED aborted

FoundSlotLast(b, pred) ==
    LET hit == {i \in PredSlots : i \in DOMAIN b.prev /\ b.prev[i].bb = pred}
    IN  IF hit = {} THEN -1 ELSE CHOOSE x \in hit : \A y \in hit : y <= x

\* The slot bb_disconnect acts on: the lowest-indexed one holding pred.
FoundSlot(b, pred) ==
    LET hit == {i \in PredSlots : i \in DOMAIN b.prev /\ b.prev[i].bb = pred}
    IN  IF hit = {} THEN -1 ELSE Min(hit)

bb_disconnect(pred, succ) ==
    /\ ~aborted
    /\ LET i == FoundSlot(bbs[succ], pred) IN
       IF i = -1
       THEN UNCHANGED bbs
       ELSE bbs' = LET b1 == [bbs EXCEPT ![pred] =
                                 UnlinkSucc(@, bbs[succ].prev[i].type)]
                   IN  [b1 EXCEPT ![succ].prev[i].bb = NULL]
    /\ last' = [op |-> "bb_disconnect", pred |-> pred, succ |-> succ,
                ret |-> "ok"]
    /\ UNCHANGED <<contract, aborted>>

\* One more call, while the exploration's budget lasts.
Counted == calls < MaxCalls /\ calls' = calls + 1

InitCFG ==
    /\ bbs = <<>>
    /\ contract = TRUE

\* --------------------------------------------------------------- hashmap
\* A 32-bit int is a pair <<hi, lo>> of its 16-bit halves, so that no
\* intermediate result leaves the range of the checker's integers.

RECURSIVE BitXor(_, _)
BitXor(a, b) ==
    IF a = 0 THEN b
    ELSE IF b = 0 THEN a
    ELSE (((a % 2) + (b % 2)) % 2) + 2 * BitXor(a \div 2, b \div 2)

RECURSIVE BitAnd(_, _)
BitAnd(a, b) ==
    IF a = 0 \/ b = 0 THEN 0
    ELSE (a % 2) * (b % 2) + 2 * BitAnd(a \div 2, b \div 2)

RECURSIVE BitOr(_, _)
BitOr(a, b) ==
    IF a = 0 THEN b
    ELSE IF b = 0 THEN a
    ELSE (IF (a % 2) + (b % 2) > 0 THEN 1 ELSE 0) + 2 * BitOr(a \div 2, b \div 2)

Half == 256 * 256

\* 0x811c9dc5, the FNV-1a offset basis
FNV_BASIS_HI == 33052
FNV_BASIS_LO == 40389
\* 0x01000193, the FNV-1a prime
FNV_PRIME_HI == 256
FNV_PRIME_LO == 403

\* `hash ^= *key` for a character 1 .. 127: only the low byte changes.
XorChar(h, c) == <<h[1], BitXor(h[2], c)>>

\* `hash *= 0x01000193`, wrapping at 32 bits.
MulPrime(h) ==
    LET pl == h[2] * FNV_PRIME_LO
    IN  <<((h[1] * FNV_PRIME_LO) + (h[2] * FNV_PRIME_HI) + (pl \div Half)) % Half,
          pl % Half>>

RECURSIVE FNV1a(_, _)
FNV1a(h, key) ==
    IF key = <<>> THEN h
    ELSE FNV1a(MulPrime(XorChar(h, Head(key))), Tail(key))

\* `mask = hash >> 31; (hash ^ mask) - mask`: a negative hash is complemented
\* and incremented, wrapping at 32 bits.
FoldSign(h) ==
    IF h[1] < 32768 THEN h
    ELSE LET c == <<65535 - h[1], 65535 - h[2]>>
         IN  IF c[2] = 65535 THEN <<(c[1] + 1) % Half, 0>> ELSE <<c[1], c[2] + 1>>

HashIndexUnmasked(size, key) ==
    FoldSign(FNV1a(<<FNV_BASIS_HI, FNV_BASIS_LO>>, key))[2]

hashmap_hash_index(size, key) ==
    LET f == FoldSign(FNV1a(<<FNV_BASIS_HI, FNV_BASIS_LO>>, key))
    IN  (BitAnd(f[1], (size - 1) \div Half) * Half)
          + BitAnd(f[2], (size - 1) % Half)

RoundUpNoDecrement(v) ==
    LET v1 == BitOr(v, v \div 2)
        v2 == BitOr(v1, v1 \div 4)
        v3 == BitOr(v2, v2 \div 16)
        v4 == BitOr(v3, v3 \div 256)
        v5 == BitOr(v4, v4 \div 65536)
    IN  v5 + 1

\* round_up_pow2 for v >= 1: v - 1 is not negative and every shift is a
\* division.
round_up_pow2(v) ==
    LET v0 == v - 1
        v1 == BitOr(v0, v0 \div 2)
        v2 == BitOr(v1, v1 \div 4)
        v3 == BitOr(v2, v2 \div 16)
        v4 == BitOr(v3, v3 \div 256)
        v5 == BitOr(v4, v4 \div 65536)
    IN  v5 + 1

\* The keys put and looked up: "", "f", "g" and "fg", as character codes.
Keys == {<<>>, <<102>>, <<103>>, <<102, 103>>}

\* The values put: pointers, NULL among them.
Vals == 0 .. MaxVal

\* hashmap_node_new: the node holds a copy of the key, and the value.
hashmap_node_new(key, val) == [key |-> key, val |-> val]

ChainPutFront(chain, node) == <<node>> \o chain

\* The bucket's chain after hashmap_put: the new node is linked behind the
\* last one (or becomes the head of an empty chain).
ChainPut(chain, node) == Append(chain, node)

\* The first node of the chain whose key equals key, by its position; 0 if
\* there is none.
ChainFind(chain, key) ==
    LET hit == {i \in 1 .. Len(chain) : chain[i].key = key}
    IN  IF hit = {} THEN 0 ELSE Min(hit)

\* The null hashmap_t pointer, and the test `!map`.
NullMap == [null |-> TRUE]

hashmap_get(map, key) ==
    IF map.null THEN NULL
    ELSE LET chain == map.buckets[hashmap_hash_index(map.size, key)]
             i == ChainFind(chain, key)
         IN  IF i = 0 THEN NULL ELSE chain[i].val

hashmap_create(size) ==
    /\ ~aborted
    /\ hm.null
    /\ hm' = [null |-> FALSE, size |-> round_up_pow2(size),
              buckets |-> [i \in 0 .. (round_up_pow2(size) - 1) |-> <<>>]]
    /\ last' = [op |-> "hashmap_create", size |-> size]
    /\ UNCHANGED <<puts, aborted>>

hashmap_put(key, val) ==
    /\ ~aborted
    /\ Len(puts) < MaxPuts
    /\ IF hm.null
       THEN UNCHANGED <<hm, puts>>
       ELSE LET index == hashmap_hash_index(hm.size, key) IN
            /\ hm' = [hm EXCEPT !.buckets[index] =
                         ChainPut(@, hashmap_node_new(key, val))]
            /\ puts' = Append(puts, [key |-> key, val |-> val])
    /\ last' = [op |-> "hashmap_put", key |-> key, val |-> val]
    /\ UNCHANGED aborted

InitMap ==
    /\ hm = NullMap
    /\ puts = <<>>

CreateMap == \E size \in 1 .. MaxMapSize : hashmap_create(size)

Put == \E key \in Keys, val \in Vals : hashmap_put(key, val)

NextMap ==
    (CreateMap \/ Put) /\ UNCHANGED <<cfgVars, scopeVars, tableVars, listVars, liveVars,
                   arenaVars, calls>>

\* The width of int.
INT_BITS == 32

\* The powers of two an int holds.
Pow2s == {2 ^ k : k \in 0 .. (INT_BITS - 2)}

\* The arguments round_up_pow2 is applied to: the small numbers, and the
\* numbers next to each power of two up to 2^30.
RoundInputs ==
    ((1 .. MaxRound) \cup {p + d : p \in Pow2s, d \in {-1, 0, 1}})
       \ {0, (2 ^ (INT_BITS - 2)) + 1}

RoundUp(v) ==
    /\ ~aborted
    /\ last' = [op |-> "round_up_pow2", v |-> v, ret |-> round_up_pow2(v)]
    /\ UNCHANGED <<aborted, hm, puts>>

\* "?Tg1<V", whose FNV-1a hash is 0x80000000, the least int.
MinHashKey == <<63, 84, 103, 49, 60, 86>>

HashKeys == Keys \cup {MinHashKey, <<103, 102>>}

HashIndex(size, key) ==
    /\ ~aborted
    /\ last' = [op |-> "hashmap_hash_index", size |-> size, key |-> key,
                ret |-> hashmap_hash_index(size, key)]
    /\ UNCHANGED <<aborted, hm, puts>>

RoundUpAny == \E v \in RoundInputs : RoundUp(v)

HashIndexAny == \E size \in Pow2s, key \in HashKeys : HashIndex(size, key)

NextHash ==
    (RoundUpAny \/ HashIndexAny \/ CreateMap)
      /\ UNCHANGED <<cfgVars, scopeVars, tableVars, listVars, liveVars,
                     arenaVars, calls>>

\* ------------------------------------------------- functions and scopes

\* What a pointer field holds that malloc left uninitialised: reading it may
\* give anything.
WILD == -1

\* The names declared and looked up.
Names == {"x", "y"}

FuncIds == 1 .. Len(funcs)
BlockIds == 1 .. Len(blocks)

ContainsNever(map, key) == FALSE

\* hashmap_contains: the pointer hashmap_get returns, as a bool.
hashmap_contains(map, key) == hashmap_get(map, key) # NULL

\* The map after hashmap_put(map, key, val).
MapPut(map, key, val) ==
    IF map.null THEN map
    ELSE [map EXCEPT !.buckets[hashmap_hash_index(map.size, key)] =
             ChainPut(@, hashmap_node_new(key, val))]

\* add_func: the function registered under name, or a new one put into
\* FUNCS_MAP; its stack_size is set to 4 either way.  A new func_t has no
\* parameters yet (the parser sets num_params).
add_func(name) ==
    /\ ~aborted
    /\ IF hashmap_contains(hm, name)
       THEN LET fn == hashmap_get(hm, name) IN
            /\ funcs' = [funcs EXCEPT ![fn].stack_size = 4]
            /\ last' = [op |-> "add_func", name |-> name, ret |-> fn]
            /\ UNCHANGED <<hm, puts>>
       ELSE LET fn == Len(funcs) + 1 IN
            /\ funcs' = Append(funcs, [name |-> name, params |-> <<>>,
                                       stack_size |-> 4])
            /\ hm' = MapPut(hm, name, fn)
            /\ puts' = IF hm.null THEN puts
                       ELSE Append(puts, [key |-> name, val |-> fn])
            /\ last' = [op |-> "add_func", name |-> name, ret |-> fn]
    /\ UNCHANGED <<aborted, blocks, BLOCKS>>

\* The bucket count global_init asks for.  Its value is set outside this
\* file; it only decides how the names spread over the chains.
MAX_FUNCS == MaxMapSize

\* global_init, as far as functions and blocks go: FUNCS_MAP is created with
\* max_funcs buckets and the global pseudo-function "" is added; BLOCKS is
\* emptied.
global_init(max_funcs) ==
    /\ ~aborted
    /\ hm.null
    /\ LET map == [null |-> FALSE, size |-> round_up_pow2(max_funcs),
                   buckets |-> [i \in 0 .. (round_up_pow2(max_funcs) - 1)
                                  |-> <<>>]]
           fn == Len(funcs) + 1
       IN  /\ hm' = MapPut(map, <<>>, fn)
           /\ puts' = Append(puts, [key |-> <<>>, val |-> fn])
           /\ funcs' = Append(funcs, [name |-> <<>>, params |-> <<>>,
                                      stack_size |-> 4])
    /\ BLOCKS' = [head |-> NULL, tail |-> NULL]
    /\ last' = [op |-> "global_init"]
    /\ UNCHANGED <<aborted, blocks>>

\* add_block: malloc leaves the block's next pointer (and its locals)
\* uninitialised.
add_block(parent, func, macro) ==
    /\ ~aborted
    /\ LET blk == Len(blocks) + 1
           new == [parent |-> parent, func |-> func, macro |-> macro,
                   locals |-> <<>>, next |-> WILD]
       IN  IF BLOCKS.head = NULL
           THEN /\ blocks' = Append(blocks, new)
                /\ BLOCKS' = [head |-> blk, tail |-> blk]
           ELSE /\ blocks' = Append([blocks EXCEPT ![BLOCKS.tail].next = blk],
                                    new)
                /\ BLOCKS' = [BLOCKS EXCEPT !.tail = blk]
    /\ last' = [op |-> "add_block", ret |-> Len(blocks) + 1]
    /\ UNCHANGED <<aborted, funcs, hm, puts>>

\* The parser declares a local: `block->locals[block->next_local++]`.
AddLocal(b, name) ==
    /\ ~aborted
    /\ blocks' = [blocks EXCEPT ![b].locals = Append(@, name)]
    /\ last' = [op |-> "add_local", block |-> b, name |-> name]
    /\ UNCHANGED <<aborted, funcs, hm, puts, BLOCKS>>

\* The parser declares a parameter: `fn->param_defs[fn->num_params++]`.
AddParam(fn, name) ==
    /\ ~aborted
    /\ funcs' = [funcs EXCEPT ![fn].params = Append(@, name)]
    /\ last' = [op |-> "add_param", func |-> fn, name |-> name]
    /\ UNCHANGED <<aborted, blocks, hm, puts, BLOCKS>>

\* A var_t pointer: the array it points into, the owner of the array and the
\* index; the null pointer.
NullVar == [kind |-> "null", owner |-> NULL, idx |-> 0]
LocalVar(b, i) == [kind |-> "local", owner |-> b, idx |-> i]
ParamVar(fn, i) == [kind |-> "param", owner |-> fn, idx |-> i]

\* The first index of names that holds token, 0 if there is none.
ScanNames(names, token) ==
    LET hit == {i \in 1 .. Len(names) : names[i] = token}
    IN  IF hit = {} THEN 0 ELSE Min(hit)

\* The loop of find_local_var over block and its parents.
RECURSIVE WalkBlocks(_, _)
WalkBlocks(token, block) ==
    IF block = NULL THEN NullVar
    ELSE LET i == ScanNames(blocks[block].locals, token)
         IN  IF i # 0 THEN LocalVar(block, i)
             ELSE WalkBlocks(token, blocks[block].parent)

\* The parameter scan left out.
ParamsSkipped(fn, token) == NullVar

\* The parameter scan of find_local_var.
ScanParams(fn, token) ==
    IF fn = NULL THEN NullVar
    ELSE LET i == ScanNames(funcs[fn].params, token)
         IN  IF i # 0 THEN ParamVar(fn, i) ELSE NullVar

find_local_var(token, block) ==
    LET fn == blocks[block].func
        v == WalkBlocks(token, block)
    IN  IF v # NullVar THEN v ELSE ScanParams(fn, token)

find_global_var(token) ==
    LET block == BLOCKS.head
        i == ScanNames(blocks[block].locals, token)
    IN  IF i # 0 THEN LocalVar(block, i) ELSE NullVar

find_var(token, parent) ==
    LET var == find_local_var(token, parent)
    IN  IF var = NullVar THEN find_global_var(token) ELSE var

FindVar(token, parent) ==
    /\ ~aborted
    /\ last' = [op |-> "find_var", token |-> token, block |-> parent,
                ret |-> find_var(token, parent)]
    /\ UNCHANGED <<aborted, funcs, blocks, hm, puts, BLOCKS>>

InitScope ==
    /\ funcs = <<>>
    /\ blocks = <<>>
    /\ BLOCKS = [head |-> NULL, tail |-> NULL]

\* The function names of the scope tree's exploration: "f" beside the "" of
\* global_init.
ScopeFuncNames == {<<102>>}

GlobalInit == global_init(MAX_FUNCS) /\ UNCHANGED calls

ScopeCounted == ~hm.null /\ calls < MaxScopeOps /\ calls' = calls + 1

AddFunc == \E name \in ScopeFuncNames : ScopeCounted /\ add_func(name)

AddBlock ==
    \E parent \in BlockIds \cup {NULL}, func \in FuncIds \cup {NULL} :
       ScopeCounted /\ add_block(parent, func, NULL)

DeclareLocal ==
    \E b \in BlockIds, name \in Names : ScopeCounted /\ AddLocal(b, name)

DeclareParam ==
    \E fn \in FuncIds, name \in Names : ScopeCounted /\ AddParam(fn, name)

LookUpVar ==
    \E token \in Names, parent \in BlockIds :
       FindVar(token, parent) /\ UNCHANGED calls

NextScope ==
    (GlobalInit \/ AddFunc \/ AddBlock \/ DeclareLocal \/ DeclareParam
       \/ LookUpVar)
      /\ UNCHANGED <<cfgVars, tableVars, listVars, liveVars, arenaVars>>

\* `next = BLOCKS.head->next; free(BLOCKS.head); BLOCKS.head = next;` from
\* block b on: the blocks freed until a next is read that add_block never
\* wrote.
RECURSIVE ReleaseWalk(_)
ReleaseWalk(b) ==
    IF b = NULL THEN <<>>
    ELSE IF blocks[b].next = WILD THEN <<b>>
    ELSE <<b>> \o ReleaseWalk(blocks[b].next)

\* global_release, as far as the block list goes.  The next of the last block
\* is whatever malloc left there: read as null the loop ends, read as anything
\* else (junk) the loop goes on into memory that is no block.
global_release(junk) ==
    /\ ~aborted
    /\ ~hm.null
    /\ LET freed == ReleaseWalk(BLOCKS.head)
           lost == freed # <<>> /\ junk # NULL
       IN  /\ last' = [op |-> "global_release", freed |-> freed,
                       ret |-> IF lost THEN "fault" ELSE "done"]
           /\ BLOCKS' = [BLOCKS EXCEPT !.head = IF lost THEN junk ELSE NULL]
           /\ aborted' = lost
    /\ UNCHANGED <<funcs, blocks, hm, puts>>

\* global_release is the last thing a run does.
Running == last.op # "global_release"

Release == \E junk \in {NULL, WILD} : global_release(junk) /\ UNCHANGED calls

NextBlocks ==
    (((GlobalInit \/ AddBlock) /\ Running) \/ Release)
      /\ UNCHANGED <<cfgVars, tableVars, listVars, liveVars, arenaVars>>

\* ------------------------------------------------- macro parameters

\* A block_t pointer as find_macro_param_src_idx sees it: null, or a block
\* and its macro pointer; a macro_t pointer: null, or the macro's parameter
\* names and their source indices.
NoBlock == [null |-> TRUE]
NoMacro == [null |-> TRUE]
MacroOf(param_defs, params) ==
    [null |-> FALSE, param_defs |-> param_defs, params |-> params]
BlockOf(macro) == [null |-> FALSE, macro |-> macro]

\* What the call gives: a number, the fatal error of error(), or the fault of
\* a read through the null pointer.
Returned(v) == [kind |-> "value", v |-> v, msg |-> ""]
Raised(msg) == [kind |-> "error", v |-> 0, msg |-> msg]
Faulted == [kind |-> "fault", v |-> 0, msg |-> ""]

\* The loop over the macro's parameters.
ParamSrcIdx(macro, name) ==
    LET hit == {i \in 1 .. Len(macro.param_defs) : macro.param_defs[i] = name}
    IN  IF hit = {} THEN 0 ELSE macro.params[Min(hit)]

\* `macro = parent->macro` comes before `if (!parent)`: with parent null the
\* read is undefined.  It traps, or the build gets past it and the check
\* calls error().
find_macro_param_src_idx_result(name, parent, trap) ==
    IF parent.null
    THEN (IF trap THEN Faulted
          ELSE Raised("The macro expansion is not supported in the global scope"))
    ELSE IF parent.macro.null THEN Returned(0)
    ELSE Returned(ParamSrcIdx(parent.macro, name))

find_macro_param_src_idx(name, parent, trap) ==
    /\ ~aborted
    /\ last' = [op |-> "find_macro_param_src_idx", name |-> name,
                parent |-> parent,
                ret |-> find_macro_param_src_idx_result(name, parent, trap)]
    /\ aborted' = (find_macro_param_src_idx_result(name, parent, trap).kind
                     # "value")

ParamNames == {"x", "y"}

\* The macros looked into: up to MaxParams parameters, each with its source
\* index.
Macros ==
    UNION {{MacroOf(d, p) : d \in [1 .. n -> ParamNames],
                            p \in [1 .. n -> 0 .. 2]} : n \in 0 .. MaxParams}

FindMacroParam ==
    \E name \in ParamNames \cup {"z"},
       parent \in {NoBlock, BlockOf(NoMacro)} \cup {BlockOf(ma) : ma \in Macros},
       trap \in BOOLEAN :
          find_macro_param_src_idx(name, parent, trap)

NextMacro ==
    FindMacroParam
      /\ UNCHANGED <<cfgVars, mapVars, scopeVars, tableVars, listVars,
                     liveVars, arenaVars, calls>>

\* ------------------------------------------------------------- the types

TypeNames == {"S", "T"}

\* The size of a pointer or a function: `size = 4`.
PTR_SIZE == 4

StructIds == {i \in 1 .. Len(TYPES) : TYPES[i].base_type = "struct"}

\* What the parser writes into the entry add_type hands out: void, int, a
\* struct declared (size 0) or defined, a typedef of a complete type, or a
\* forward-declared typedef (size 0) whose base_struct is a struct's entry.
\* A base_struct the parser does not set is left as malloc gave it.
TypeFills ==
    [base_type : {"void"}, size : {0}, base_struct : {WILD}]
      \cup [base_type : {"int"}, size : {4}, base_struct : {WILD}]
      \cup [base_type : {"struct"}, size : {0, 8}, base_struct : {WILD}]
      \cup [base_type : {"typedef"}, size : {4}, base_struct : {WILD}]
      \cup [base_type : {"typedef"}, size : {0}, base_struct : StructIds]

NewType(name, fill) ==
    [type_name |-> name, base_type |-> fill.base_type, size |-> fill.size,
     base_struct |-> fill.base_struct]

\* A table's capacity is set outside this file; here it is the number of
\* entries the exploration goes to.
MAX_TYPES == MaxTypes

\* Entry i (from 0) of a table of the given capacity lies behind the storage
\* malloc gave the table.
OutOfStorage(i, capacity) == i >= capacity

\* add_type: `&TYPES[types_idx++]`; the parser then fills the entry, its name
\* included.  Nothing compares types_idx with the capacity: a write behind the
\* storage goes through unnoticed or ends the process (crash).
add_type(name, fill, crash) ==
    /\ ~aborted
    /\ TYPES' = Append(TYPES, NewType(name, fill))
    /\ last' = [op |-> "add_type", ret |-> Len(TYPES) + 1]
    /\ aborted' = (OutOfStorage(Len(TYPES), MAX_TYPES) /\ crash)
    /\ UNCHANGED <<ALIASES, MACROS>>

\* add_named_type: add_type, and the name copied in.
add_named_type(name, fill, crash) ==
    /\ ~aborted
    /\ TYPES' = Append(TYPES, NewType(name, fill))
    /\ last' = [op |-> "add_named_type", name |-> name, ret |-> Len(TYPES) + 1]
    /\ aborted' = (OutOfStorage(Len(TYPES), MAX_TYPES) /\ crash)
    /\ UNCHANGED <<ALIASES, MACROS>>

SkipTagNever(flag) == FALSE

\* `if (flag == 1) continue;` in the struct branch.
SkipTag(flag) == flag = 1

\* `if (flag == 2) continue;` in the other branch.
SkipName(flag) == flag = 2

\* The entry at which the loop of find_type returns.
TypeHit(i, type_name, flag) ==
    /\ TYPES[i].type_name = type_name
    /\ IF TYPES[i].base_type = "struct" THEN ~SkipTag(flag) ELSE ~SkipName(flag)

\* What find_type returns at entry i: the entry, or the base_struct of a
\* forward-declared typedef.
TypeResult(i) ==
    IF /\ TYPES[i].base_type # "struct"
       /\ TYPES[i].base_type = "typedef"
       /\ TYPES[i].size = 0
    THEN TYPES[i].base_struct
    ELSE i

find_type(type_name, flag) ==
    LET hit == {i \in 1 .. Len(TYPES) : TypeHit(i, type_name, flag)}
    IN  IF hit = {} THEN NULL ELSE TypeResult(Min(hit))

FindType(type_name, flag) ==
    /\ ~aborted
    /\ last' = [op |-> "find_type", name |-> type_name, flag |-> flag,
                ret |-> find_type(type_name, flag)]
    /\ UNCHANGED <<aborted, TYPES, ALIASES, MACROS>>

\* What size_var gives back: a size, the fatal error of error(), or the fault
\* of a read through a pointer that points nowhere.
SizeValue(n) == [kind |-> "value", v |-> n, msg |-> ""]
SizeError(msg) == [kind |-> "error", v |-> 0, msg |-> msg]
SizeFault == [kind |-> "fault", v |-> 0, msg |-> ""]

\* `type->base_struct->size`.  Through a base_struct nobody set the read
\* faults (junk = -1) or gives whatever lies there (junk).
BaseStructSize(type, junk) ==
    IF TYPES[type].base_struct = WILD
    THEN (IF junk = -1 THEN SizeFault ELSE SizeValue(junk))
    ELSE SizeValue(TYPES[TYPES[type].base_struct].size)

\* `if (var->array_size > 0) size = size * var->array_size;`
TimesArray(var, size) ==
    IF size.kind = "value" /\ var.array_size > 0
    THEN SizeValue(size.v * var.array_size)
    ELSE size

size_var_result(var, junk) ==
    IF var.is_ptr > 0 \/ var.is_func
    THEN TimesArray(var, SizeValue(PTR_SIZE))
    ELSE LET type == find_type(var.type_name, 0) IN
         IF type = NULL THEN SizeError("Incomplete type")
         ELSE IF TYPES[type].size = 0
              THEN TimesArray(var, BaseStructSize(type, junk))
              ELSE TimesArray(var, SizeValue(TYPES[type].size))

size_var(var, junk) ==
    /\ ~aborted
    /\ last' = [op |-> "size_var", var |-> var,
                ret |-> size_var_result(var, junk)]
    /\ aborted' = (size_var_result(var, junk).kind # "value")
    /\ UNCHANGED <<TYPES, ALIASES, MACROS>>

InitTypes == TYPES = <<>>

\* The variables whose size is asked for.
SizedVars ==
    [type_name : TypeNames, is_ptr : {0, 1}, is_func : BOOLEAN,
     array_size : {0, 3}]

\* What a read through an unset pointer may give: a fault, or any number.
JunkReads == {-1, 0, 5}

AddType ==
    \E name \in TypeNames, fill \in TypeFills, crash \in BOOLEAN :
       Len(TYPES) < MaxTypes /\ add_type(name, fill, crash)

AddNamedType ==
    \E name \in TypeNames, fill \in TypeFills, crash \in BOOLEAN :
       Len(TYPES) < MaxTypes /\ add_named_type(name, fill, crash)

LookUpType == \E name \in TypeNames, flag \in {0, 1, 2} : FindType(name, flag)

SizeVar == \E var \in SizedVars, junk \in JunkReads : size_var(var, junk)

NextTypes ==
    (AddType \/ AddNamedType \/ LookUpType \/ SizeVar)
      /\ UNCHANGED <<cfgVars, mapVars, scopeVars, listVars, liveVars,
                     arenaVars, calls>>

\* ----------------------------------------------------------- the aliases

AliasNames == {"X", "Y"}
AliasValues == {"1", "2"}

\* The last call that wrote the alias table, as a later call records it.
Before ==
    IF last.op \in {"add_alias", "remove_alias"}
    THEN [op |-> last.op, alias |-> last.alias]
    ELSE IF last.op = "find_alias" THEN last.after
    ELSE [op |-> "none", alias |-> ""]

MAX_ALIASES == MaxAliases

\* add_alias: `&ALIASES[aliases_idx++]`, filled and enabled.  As in add_type
\* nothing compares aliases_idx with the capacity.
add_alias(alias, value, crash) ==
    /\ ~aborted
    /\ ALIASES' = Append(ALIASES, [alias |-> alias, value |-> value,
                                   disabled |-> FALSE])
    /\ last' = [op |-> "add_alias", alias |-> alias, value |-> value,
                after |-> Before]
    /\ aborted' = (OutOfStorage(Len(ALIASES), MAX_ALIASES) /\ crash)
    /\ UNCHANGED <<TYPES, MACROS>>

FindAliasHitAnyFlag(e, alias) == alias = e.alias

\* `!ALIASES[i].disabled && !strcmp(alias, ALIASES[i].alias)` in find_alias.
FindAliasHit(e, alias) == ~e.disabled /\ alias = e.alias

RemoveHitAnyFlag(e, alias) == alias = e.alias

\* The same test in remove_alias.
RemoveAliasHit(e, alias) == ~e.disabled /\ alias = e.alias

\* find_alias over the table A: the entry whose value it returns, NULL if
\* none.
find_alias(A, alias) ==
    LET hit == {i \in 1 .. Len(A) : FindAliasHit(A[i], alias)}
    IN  IF hit = {} THEN NULL ELSE Min(hit)

FindAlias(alias) ==
    /\ ~aborted
    /\ last' = [op |-> "find_alias", alias |-> alias,
                ret |-> find_alias(ALIASES, alias), after |-> Before]
    /\ UNCHANGED <<aborted, TYPES, ALIASES, MACROS>>

remove_alias(alias) ==
    /\ ~aborted
    /\ LET hit == {i \in 1 .. Len(ALIASES) : RemoveAliasHit(ALIASES[i], alias)}
       IN  IF hit = {}
           THEN /\ UNCHANGED ALIASES
                /\ last' = [op |-> "remove_alias", alias |-> alias,
                            ret |-> FALSE, after |-> Before]
           ELSE /\ ALIASES' = [ALIASES EXCEPT ![Min(hit)].disabled = TRUE]
                /\ last' = [op |-> "remove_alias", alias |-> alias,
                            ret |-> TRUE, after |-> Before]
    /\ UNCHANGED <<aborted, TYPES, MACROS>>

InitAliases == ALIASES = <<>> /\ MACROS = <<>>

AddAlias ==
    \E alias \in AliasNames, value \in AliasValues, crash \in BOOLEAN :
       Len(ALIASES) < MaxAliases /\ add_alias(alias, value, crash)

LookUpAlias == \E alias \in AliasNames : FindAlias(alias)

RemoveAlias == \E alias \in AliasNames : remove_alias(alias)

NextAliases ==
    (AddAlias \/ LookUpAlias \/ RemoveAlias)
      /\ UNCHANGED <<cfgVars, mapVars, scopeVars, listVars, liveVars,
                     arenaVars, calls>>

\* ------------------------------------------- symbols and instructions

\* The variables handed to add_symbol (var_t pointers).
SymVars == {"a", "b"}

\* The opcodes handed to add_insn.
InsnOps == {"load", "add"}

\* The block_t pointers handed around here; the blocks are not looked into.
ScopeIds == {1}

EmptyList == [head |-> NULL, tail |-> NULL]

\* A string argument: the null pointer, or a string.
NoStr == [null |-> TRUE, s |-> ""]
Str(s) == [null |-> FALSE, s |-> s]

\* bb_create(parent), the fields behind the predecessor array: calloc zeroes
\* the lists, and `bb->scope = parent`.
bb_create_in(parent) ==
    /\ bb_create
    /\ lists' = Append(lists, [scope |-> parent, symbol_list |-> EmptyList,
                               insn_list |-> EmptyList])
    /\ UNCHANGED <<symbols, insns>>

\* `for (sym = head; sym; sym = sym->next)`: the symbols met, in order.
RECURSIVE SymbolsFrom(_)
SymbolsFrom(sym) ==
    IF sym = NULL THEN <<>> ELSE <<sym>> \o SymbolsFrom(symbols[sym].next)

\* The index a new symbol is given.
NewIndexZero(list) == 0

NewIndex(list) ==
    IF list.head = NULL THEN 0 ELSE symbols[list.tail].index + 1

add_symbol(bb, var) ==
    /\ ~aborted
    /\ last' = [op |-> "add_symbol", bb |-> bb, var |-> var]
    /\ IF bb = NULL
       THEN UNCHANGED <<symbols, lists>>
       ELSE LET list == lists[bb].symbol_list
                met == SymbolsFrom(list.head)
                sym == Len(symbols) + 1
            IN  IF \E i \in 1 .. Len(met) : symbols[met[i]].var = var
                THEN UNCHANGED <<symbols, lists>>
                ELSE IF list.head = NULL
                THEN /\ symbols' = Append(symbols,
                            [var |-> var, index |-> NewIndex(list),
                             next |-> NULL])
                     /\ lists' = [lists EXCEPT
                            ![bb].symbol_list = [head |-> sym, tail |-> sym]]
                ELSE /\ symbols' = Append(
                            [symbols EXCEPT ![list.tail].next = sym],
                            [var |-> var, index |-> NewIndex(list),
                             next |-> NULL])
                     /\ lists' = [lists EXCEPT ![bb].symbol_list.tail = sym]
    /\ UNCHANGED <<aborted, bbs, contract, insns>>

\* `n->prev = bb->insn_list.tail;`
LinkPrevNone(list) == NULL

LinkPrev(list) == list.tail

add_insn(block, bb, op, rd, rs1, rs2, sz, str) ==
    /\ ~aborted
    /\ last' = [op |-> "add_insn", bb |-> bb, block |-> block, opcode |-> op]
    /\ IF bb = NULL
       THEN UNCHANGED <<insns, lists>>
       ELSE LET list == lists[bb].insn_list
                n == Len(insns) + 1
                new == [opcode |-> op, rd |-> rd, rs1 |-> rs1, rs2 |-> rs2,
                        sz |-> sz, str |-> IF str.null THEN "" ELSE str.s,
                        belong_to |-> bb, prev |-> LinkPrev(list),
                        next |-> NULL]
            IN  /\ insns' = IF list.head = NULL
                            THEN Append(insns, new)
                            ELSE Append([insns EXCEPT ![list.tail].next = n],
                                        new)
                /\ lists' = [lists EXCEPT
                       ![bb].scope = block,
                       ![bb].insn_list =
                           [head |-> IF list.head = NULL THEN n ELSE list.head,
                            tail |-> n]]
    /\ UNCHANGED <<aborted, bbs, contract, symbols>>

InitLists ==
    /\ symbols = <<>>
    /\ insns = <<>>
    /\ lists = <<>>

CreateListBB == \E parent \in ScopeIds : bb_create_in(parent)

AddSymbol ==
    \E bb \in {NULL} \cup (1 .. Len(bbs)), var \in SymVars : add_symbol(bb, var)

NextSymbols ==
    (CreateListBB \/ AddSymbol)
      /\ UNCHANGED <<mapVars, scopeVars, tableVars, liveVars, arenaVars,
                     calls>>

AddInsn ==
    \E block \in {NULL} \cup ScopeIds, bb \in {NULL} \cup (1 .. Len(bbs)),
       op \in InsnOps, str \in {NoStr, Str("s")} :
          /\ Len(insns) < MaxInsns
          /\ add_insn(block, bb, op, NULL, NULL, NULL, 0, str)

NextInsns ==
    (CreateListBB \/ AddInsn)
      /\ UNCHANGED <<mapVars, scopeVars, tableVars, liveVars, arenaVars,
                     calls>>

\* ---------------------------------------------------------- liveness

LiveVars == {"a", "b"}

\* The values a liveness and an end take.
Ends == -1 .. MaxEnd

\* The function f with f[x] set to v, x joining the domain if new.
With(f, x, v) == [y \in DOMAIN f \cup {x} |-> IF y = x THEN v ELSE f[y]]

\* The parser sets up a variable's liveness.
InitVar(var, first) ==
    /\ ~aborted
    /\ var \notin DOMAIN liveness
    /\ liveness' = With(liveness, var, first)
    /\ ends' = With(ends, var, {first})
    /\ last' = [op |-> "init_var", var |-> var]
    /\ UNCHANGED aborted

KeepsLivenessInverted(cur, end) == cur <= end

\* `if (var->liveness >= end) return;`
KeepsLiveness(cur, end) == cur >= end

set_var_liveout(var, end) ==
    /\ ~aborted
    /\ var \in DOMAIN liveness
    /\ liveness' = IF KeepsLiveness(liveness[var], end) THEN liveness
                   ELSE [liveness EXCEPT ![var] = end]
    /\ ends' = [ends EXCEPT ![var] = @ \cup {end}]
    /\ last' = [op |-> "set_var_liveout", var |-> var, end |-> end]
    /\ UNCHANGED aborted

InitLive ==
    /\ liveness = [v \in {} |-> 0]
    /\ ends = [v \in {} |-> {}]

DeclareVar == \E var \in LiveVars, first \in Ends : InitVar(var, first)

SetLiveout == \E var \in LiveVars, end \in Ends : set_var_liveout(var, end)

NextLive ==
    (DeclareVar \/ SetLiveout)
      /\ UNCHANGED <<cfgVars, mapVars, scopeVars, tableVars, listVars,
                     arenaVars, calls>>

\* ------------------------------------------------- arenas and capacity

IRArenas == {"GLOBAL_IR", "PH1_IR", "PH2_IR"}
IndexedTables == {"MACROS", "CONSTANTS", "LABEL_LUT"}

\* The opcodes handed to add_global_ir, add_ph1_ir and add_ph2_ir.
IROps == {"OP_load", "OP_add"}

\* What the fields of an arena entry other than op hold: the arena comes
\* from malloc, so zeroes or anything else.
Held == {"zero", "junk"}

\* The capacities global_init allocates; MACROS is given MAX_ALIASES entries.
MAX_CONSTANTS == Capacity
MAX_LABEL == Capacity
MAX_GLOBAL_IR == Capacity
MAX_IR_INSTR == MaxDump

CapacityOf(table) ==
    CASE table = "GLOBAL_IR" -> MAX_GLOBAL_IR
      [] table = "PH1_IR" -> MAX_IR_INSTR
      [] table = "PH2_IR" -> MAX_IR_INSTR
      [] table = "LABEL_LUT" -> MAX_LABEL
      [] table = "CONSTANTS" -> MAX_CONSTANTS
      [] table = "MACROS" -> MAX_ALIASES
      [] table = "ALIASES" -> MAX_ALIASES
      [] table = "TYPES" -> MAX_TYPES

\* `ir = &ARENA[idx++]; ir->op = op; return ir;` for one of the three
\* arenas: the entry keeps what it held, but for op.
AddIR(arena, op, held, crash) ==
    /\ ~aborted
    /\ ir' = [ir EXCEPT ![arena] = Append(@, [op |-> op, rest |-> held])]
    /\ last' = [op |-> "add_ir", arena |-> arena, opcode |-> op,
                slot |-> Len(ir[arena]),
                ret |-> [op |-> op, rest |-> held]]
    /\ aborted' = (OutOfStorage(Len(ir[arena]), CapacityOf(arena)) /\ crash)
    /\ UNCHANGED <<idxs, TYPES, ALIASES, MACROS>>

add_global_ir(op, held, crash) == AddIR("GLOBAL_IR", op, held, crash)
add_ph1_ir(op, held, crash) == AddIR("PH1_IR", op, held, crash)
add_ph2_ir(op, held, crash) == AddIR("PH2_IR", op, held, crash)

\* `&TABLE[idx++]` and the entry filled, for a table kept here as its index
\* only.
AddEntry(table, crash) ==
    /\ ~aborted
    /\ idxs' = [idxs EXCEPT ![table] = @ + 1]
    /\ last' = [op |-> "add_entry", table |-> table, slot |-> idxs[table]]
    /\ aborted' = (OutOfStorage(idxs[table], CapacityOf(table)) /\ crash)
    /\ UNCHANGED <<ir, TYPES, ALIASES>>

\* add_macro: `&MACROS[macros_idx++]`, named and enabled.
add_macro(name, crash) ==
    /\ AddEntry("MACROS", crash)
    /\ MACROS' = Append(MACROS, [name |-> name, disabled |-> FALSE])

add_constant(alias, value, crash) ==
    AddEntry("CONSTANTS", crash) /\ UNCHANGED MACROS

add_label(name, offset, crash) ==
    AddEntry("LABEL_LUT", crash) /\ UNCHANGED MACROS

InitArenas ==
    /\ ir = [a \in IRArenas |-> <<>>]
    /\ idxs = [t \in IndexedTables |-> 0]

\* The tables exist once global_init has run.
TableCounted == ~hm.null /\ calls < MaxAdds /\ calls' = calls + 1

TablesInit ==
    global_init(MAX_FUNCS) /\ UNCHANGED <<calls, tableVars, arenaVars>>

Quiet == UNCHANGED <<funcs, blocks, BLOCKS, hm, puts>>

AddGlobalIR ==
    \E op \in IROps, held \in Held, crash \in BOOLEAN :
       TableCounted /\ add_global_ir(op, held, crash) /\ Quiet

AddPh1IR ==
    \E op \in IROps, held \in Held, crash \in BOOLEAN :
       TableCounted /\ add_ph1_ir(op, held, crash) /\ Quiet

AddPh2IR ==
    \E op \in IROps, held \in Held, crash \in BOOLEAN :
       TableCounted /\ add_ph2_ir(op, held, crash) /\ Quiet

AddMacro ==
    \E crash \in BOOLEAN : TableCounted /\ add_macro("M", crash) /\ Quiet

AddConstant ==
    \E crash \in BOOLEAN : TableCounted /\ add_constant("K", 1, crash) /\ Quiet

AddLabel ==
    \E crash \in BOOLEAN : TableCounted /\ add_label("L", 0, crash) /\ Quiet

AddTypeEntry ==
    \E crash \in BOOLEAN :
       /\ TableCounted
       /\ add_type("S", [base_type |-> "int", size |-> 4,
                         base_struct |-> WILD], crash)
       /\ UNCHANGED arenaVars
       /\ Quiet

AddAliasEntry ==
    \E crash \in BOOLEAN :
       TableCounted /\ add_alias("X", "1", crash) /\ UNCHANGED arenaVars /\ Quiet

NextTables ==
    (\/ TablesInit
     \/ AddGlobalIR \/ AddPh1IR \/ AddPh2IR
     \/ AddMacro \/ AddConstant \/ AddLabel
     \/ AddTypeEntry \/ AddAliasEntry)
      /\ UNCHANGED <<cfgVars, listVars, liveVars>>

\* ---------------------------------------------------------- the IR dump

\* find_func: the function FUNCS_MAP holds under the name.
find_func(func_name) == hashmap_get(hm, func_name)

\* The fields of a ph1_ir_t the dump reads: dest, src0 and src1 as the
\* variable's name ("" for the null pointer), func_name, and src0's is_func.
NoFields ==
    [dest |-> "", src0 |-> "", src1 |-> "", func_name |-> <<>>,
     is_func |-> FALSE]

\* The parser's emit: add_ph1_ir(op), and the fields written to the entry it
\* returned.
ph1_emit(op, fields) ==
    /\ ~aborted
    /\ ir' = [ir EXCEPT !["PH1_IR"] = Append(@, [op |-> op, rest |-> fields])]
    /\ last' = [op |-> "add_ir", arena |-> "PH1_IR", opcode |-> op,
                slot |-> Len(ir["PH1_IR"]),
                ret |-> [op |-> op, rest |-> fields]]
    /\ UNCHANGED <<aborted, idxs, TYPES, ALIASES, MACROS>>

\* The opcodes printed as `%rd = name %op1, %op2`, and the name printed.
BinaryName(op) ==
    CASE op = "OP_add" -> "add" [] op = "OP_sub" -> "sub"
      [] op = "OP_mul" -> "mul" [] op = "OP_div" -> "div"
      [] op = "OP_mod" -> "mod" [] op = "OP_eq" -> "eq"
      [] op = "OP_neq" -> "neq" [] op = "OP_gt" -> "gt"
      [] op = "OP_lt" -> "lt" [] op = "OP_geq" -> "geq"
      [] op = "OP_leq" -> "leq" [] op = "OP_bit_and" -> "and"
      [] op = "OP_bit_or" -> "or" [] op = "OP_bit_xor" -> "xor"
      [] op = "OP_log_and" -> "and" [] op = "OP_log_or" -> "or"
      [] op = "OP_rshift" -> "rshift" [] op = "OP_lshift" -> "lshift"
      [] OTHER -> ""

\* The opcodes printed as `%rd = not %op1`.
IsNot(op) == op \in {"OP_bit_not", "OP_log_not"}

\* What the switch prints for an entry, as the pieces of the line; rd, op1
\* and op2 are the name buffers.  An opcode without a case prints nothing.
LineText(e, rd, op1, op2) ==
    CASE e.op = "OP_define" ->
            <<"def", e.rest.func_name,
              IF find_func(e.rest.func_name) = NULL THEN <<>>
              ELSE funcs[find_func(e.rest.func_name)].params>>
      [] e.op = "OP_block_start" -> <<"{">>
      [] e.op = "OP_block_end" -> <<"}">>
      [] e.op = "OP_allocat" -> <<"allocat", op1>>
      [] e.op = "OP_load_constant" -> <<"const", rd>>
      [] e.op = "OP_load_data_address" -> <<rd, ".data">>
      [] e.op = "OP_address_of" -> <<rd, "&", op1>>
      [] e.op = "OP_assign" -> <<rd, "=", op1>>
      [] e.op = "OP_label" -> <<op1>>
      [] e.op = "OP_branch" -> <<"br", rd, op1, op2>>
      [] e.op = "OP_jump" -> <<"j", rd>>
      [] e.op = "OP_push" -> <<"push", op1>>
      [] e.op = "OP_call" -> <<"call", e.rest.func_name>>
      [] e.op = "OP_func_ret" -> <<"retval", rd>>
      [] e.op = "OP_return" ->
            IF e.rest.src0 # "" THEN <<"ret", op1>> ELSE <<"ret">>
      [] e.op = "OP_read" -> <<rd, "=", "(", op1, ")">>
      [] e.op = "OP_write" ->
            IF e.rest.is_func THEN <<"(", rd, ")", "=", "@", op1>>
            ELSE <<"(", rd, ")", "=", op1>>
      [] e.op = "OP_indirect" -> <<"indirect call", op1>>
      [] e.op = "OP_negate" -> <<"neg", rd, op1>>
      [] BinaryName(e.op) # "" -> <<rd, "=", BinaryName(e.op), op1, op2>>
      [] IsNot(e.op) -> <<rd, "=", "not", op1>>
      [] OTHER -> <<>>

EndIndentLate(indent) == indent

\* `indent--;` of OP_block_end comes before its print_indent.
EndIndent(indent) == indent - 1

\* The argument of print_indent for an entry; OP_define prints without it.
IndentOf(e, indent) ==
    CASE e.op = "OP_define" -> 0
      [] e.op = "OP_block_end" -> EndIndent(indent)
      [] e.op = "OP_label" -> 0
      [] LineText(e, "", "", "") = <<>> -> 0
      [] OTHER -> indent

\* The counter after an entry.
IndentAfter(e, indent) ==
    CASE e.op = "OP_block_start" -> indent + 1
      [] e.op = "OP_block_end" -> indent - 1
      [] OTHER -> indent

\* print_indent: one tab per level, none for a level below 1.
Tabs(indent) == IF indent > 0 THEN indent ELSE 0

\* `strcpy(buf, var->var_name)` if the pointer is not null: the buffer keeps
\* its content otherwise.
Loaded(buf, name) == IF name # "" THEN name ELSE buf

\* The loop of dump_ph1_ir from entry i on: the lines printed.
RECURSIVE DumpFrom(_, _, _, _, _)
DumpFrom(i, indent, rd, op1, op2) ==
    IF i > Len(ir["PH1_IR"]) THEN <<[tabs |-> 0, text |-> <<"===">>]>>
    ELSE LET e == ir["PH1_IR"][i]
             d == Loaded(rd, e.rest.dest)
             s0 == Loaded(op1, e.rest.src0)
             s1 == Loaded(op2, e.rest.src1)
         IN  <<[tabs |-> Tabs(IndentOf(e, indent)),
                text |-> LineText(e, d, s0, s1)]>>
               \o DumpFrom(i + 1, IndentAfter(e, indent), d, s0, s1)

\* The counter when the loop is left.
RECURSIVE IndentFrom(_, _)
IndentFrom(i, indent) ==
    IF i > Len(ir["PH1_IR"]) THEN indent
    ELSE IndentFrom(i + 1, IndentAfter(ir["PH1_IR"][i], indent))

\* dump_ph1_ir.  The name buffers start with whatever the stack holds ("?").
dump_ph1_ir ==
    /\ ~aborted
    /\ last' = [op |-> "dump_ph1_ir", out |-> DumpFrom(1, 0, "?", "?", "?"),
                indent |-> IndentFrom(1, 0)]
    /\ UNCHANGED <<aborted, ir, idxs, TYPES, ALIASES, MACROS>>

\* The instructions the parser emits here, each with the operands its line
\* prints: a definition of a registered function, blocks, a label, returns
\* with and without a value, an addition, and OP_load, which the dump has no
\* case for.
Emitted ==
    {[op |-> "OP_define", rest |-> [NoFields EXCEPT !.func_name = n]] :
        n \in {k \in Keys : hashmap_contains(hm, k)}}
      \cup {[op |-> o, rest |-> NoFields] :
              o \in {"OP_block_start", "OP_block_end", "OP_return", "OP_load"}}
      \cup {[op |-> "OP_label", rest |-> [NoFields EXCEPT !.src0 = "L"]],
            [op |-> "OP_return", rest |-> [NoFields EXCEPT !.src0 = "x"]],
            [op |-> "OP_add",
             rest |-> [NoFields EXCEPT !.dest = "z", !.src0 = "x",
                                       !.src1 = "y"]]}

Emit ==
    \E e \in Emitted :
       /\ ~hm.null
       /\ Len(ir["PH1_IR"]) < MaxDump
       /\ ph1_emit(e.op, e.rest)
       /\ Quiet
       /\ UNCHANGED calls

Dump == dump_ph1_ir /\ Quiet /\ UNCHANGED calls

NextDump ==
    (TablesInit \/ Emit \/ Dump) /\ UNCHANGED <<cfgVars, listVars, liveVars>>

\* ------------------------------------------------- the function registry

\* The parser reserves room on the function's stack: stack_size grows.
GrowStack(fn, size) ==
    /\ ~aborted
    /\ funcs' = [funcs EXCEPT ![fn].stack_size = @ + size]
    /\ last' = [op |-> "grow_stack", func |-> fn]
    /\ UNCHANGED <<aborted, blocks, hm, puts, BLOCKS>>

AddAnyFunc == \E name \in Keys : ScopeCounted /\ add_func(name)

Grow ==
    \E fn \in FuncIds :
       /\ funcs[fn].stack_size = 4
       /\ GrowStack(fn, PTR_SIZE)
       /\ UNCHANGED calls

FindFunc ==
    \E name \in Keys :
       /\ ~aborted
       /\ ~hm.null
       /\ last' = [op |-> "find_func", name |-> name, ret |-> find_func(name)]
       /\ UNCHANGED <<aborted, scopeVars, mapVars, calls>>

NextFuncs ==
    (GlobalInit \/ AddAnyFunc \/ Grow \/ FindFunc)
      /\ UNCHANGED <<cfgVars, tableVars, listVars, liveVars, arenaVars>>

\* ------------------------------------------------------- macro removal

\* `!MACROS[i].disabled && !strcmp(name, MACROS[i].name)` in remove_macro.
RemoveMacroHit(e, name) == ~e.disabled /\ name = e.name

\* remove_macro: the first enabled macro of that name is disabled.
remove_macro(name) ==
    /\ ~aborted
    /\ LET hit == {i \in 1 .. idxs["MACROS"] : RemoveMacroHit(MACROS[i], name)}
       IN  IF hit = {}
           THEN /\ UNCHANGED MACROS
                /\ last' = [op |-> "remove_macro", name |-> name, ret |-> FALSE]
           ELSE /\ MACROS' = [MACROS EXCEPT ![Min(hit)].disabled = TRUE]
                /\ last' = [op |-> "remove_macro", name |-> name, ret |-> TRUE]
    /\ UNCHANGED <<aborted, TYPES, ALIASES, ir, idxs>>

\* The tables stay within the storage global_init allocated.
DefineAlias ==
    \E alias \in AliasNames, value \in AliasValues, crash \in BOOLEAN :
       /\ Len(ALIASES) + Len(MACROS) < MaxAliases
       /\ add_alias(alias, value, crash)
       /\ UNCHANGED arenaVars

DefineMacro ==
    \E name \in AliasNames, crash \in BOOLEAN :
       /\ Len(ALIASES) + Len(MACROS) < MaxAliases
       /\ add_macro(name, crash)

UndefAlias == \E alias \in AliasNames : remove_alias(alias) /\ UNCHANGED arenaVars

UndefMacro == \E name \in AliasNames : remove_macro(name)

NextRemove ==
    (DefineAlias \/ DefineMacro \/ UndefAlias \/ UndefMacro)
      /\ UNCHANGED <<cfgVars, mapVars, scopeVars, listVars, liveVars, calls>>

Init ==
    /\ aborted = FALSE
    /\ last = [op |-> "init"]
    /\ calls = 0
    /\ InitCFG
    /\ InitMap
    /\ InitScope
    /\ InitTypes
    /\ InitAliases
    /\ InitLists
    /\ InitLive
    /\ InitArenas

CreateBB == bb_create /\ UNCHANGED calls

Connect ==
    \E pred \in BBs \cup {NULL}, succ \in BBs \cup {NULL},
       type \in ConnTypes, oob \in 0 .. MaxOOB :
       Counted /\ bb_connect(pred, succ, type, oob)

Disconnect ==
    \E pred \in BBs, succ \in BBs : Counted /\ bb_disconnect(pred, succ)

Next ==
    (CreateBB \/ Connect \/ Disconnect)
      /\ UNCHANGED <<mapVars, scopeVars, tableVars, listVars, liveVars,
                     arenaVars>>

Spec == Init /\ [][Next]_vars

\* Many predecessors joining one block: every connection made has the first
\* block created as its successor.
CreateJoin == Len(bbs) < MaxJoin /\ bb_create /\ UNCHANGED calls

Join ==
    \E pred \in BBs, type \in ConnTypes, oob \in 0 .. MaxOOB :
       bb_connect(pred, 1, type, oob) /\ UNCHANGED calls

NextFill ==
    (CreateJoin \/ Join)
      /\ UNCHANGED <<mapVars, scopeVars, tableVars, listVars, liveVars,
                     arenaVars>>

SpecFill == Init /\ [][NextFill]_vars

SpecMap == Init /\ [][NextMap]_vars

SpecScope == Init /\ [][NextScope]_vars

SpecTypes == Init /\ [][NextTypes]_vars

SpecAliases == Init /\ [][NextAliases]_vars

SpecSymbols == Init /\ [][NextSymbols]_vars

SpecInsns == Init /\ [][NextInsns]_vars

SpecLive == Init /\ [][NextLive]_vars

SpecTables == Init /\ [][NextTables]_vars

SpecBlocks == Init /\ [][NextBlocks]_vars

SpecHash == Init /\ [][NextHash]_vars

SpecMacro == Init /\ [][NextMacro]_vars

SpecDump == Init /\ [][NextDump]_vars

SpecFuncs == Init /\ [][NextFuncs]_vars

SpecRemove == Init /\ [][NextRemove]_vars


\* ------------------------------------------------------ the CFG's claims

\* The slots of block s, in the blocks B, that hold exactly (p, k).
SlotsEqual(B, s, p, k) ==
    {i \in DOMAIN B[s].prev : B[s].prev[i] = [bb |-> p, type |-> k]}

\* The slots of block s, in the blocks B, whose bb is p.
SlotsHolding(B, s, p) == {i \in DOMAIN B[s].prev : B[s].prev[i].bb = p}

Occupied(b) == {i \in DOMAIN b.prev : b.prev[i].bb # NULL}

\* The two directions of the graph agree: a slot of succ holding pred has the
\* type of a successor field of pred that points at succ, and a successor
\* field of pred pointing at succ has its slot in succ.
DirectionConsistent ==
    \A p \in BBs, s \in BBs :
       /\ \A i \in SlotsHolding(bbs, s, p) :
             Field(bbs[p], bbs[s].prev[i].type) = s
       /\ \A k \in ConnTypes :
             Field(bbs[p], k) = s => SlotsEqual(bbs, s, p, k) # {}

\* C1 as stated: in every state reachable by any sequence of bb_create,
\* bb_connect and bb_disconnect calls the two directions of the CFG agree.
C1_AnySequence == DirectionConsistent

\* C1, amended: in every state reachable by calls in which each bb_connect
\* respects its caller contract (the successor field it sets is null and the
\* pair is not connected yet), the two directions of the CFG agree.
C1_DirectionConsistent == contract => DirectionConsistent

\* Two edges were made under the contract and one of them was taken away.
C1_Witness ==
    /\ contract
    /\ last.op = "bb_disconnect"
    /\ calls = 3
    /\ \E p \in BBs, s \in BBs : SlotsHolding(bbs, s, p) # {}
    /\ \E s \in BBs : \E i \in DOMAIN bbs[s].prev :
          bbs[s].prev[i].bb = NULL /\ bbs[s].prev[i].type # "NEXT"

\* C2 as stated: bb_connect(p, s, k) with non-null p and s, called when s has
\* an empty predecessor slot, leaves exactly one slot of s.prev equal to
\* (p, k) and the successor field of p selected by k equal to s.
C2_AnyState ==
    [][(/\ last'.op = "bb_connect"
        /\ last'.pred # NULL /\ last'.succ # NULL
        /\ Cardinality(Occupied(bbs[last'.succ])) < MAX_BB_PRED)
       => (/\ Cardinality(SlotsEqual(bbs', last'.succ, last'.pred, last'.type)) = 1
           /\ Field(bbs'[last'.pred], last'.type) = last'.succ)]_vars

\* C2, amended: bb_connect(p, s, k) with non-null p and s, called when s has
\* an empty predecessor slot and no slot of s.prev equals (p, k) yet, leaves
\* exactly one slot of s.prev equal to (p, k) and the successor field of p
\* selected by k equal to s.
C2_ConnectWritesEdge ==
    [][(/\ last'.op = "bb_connect"
        /\ last'.pred # NULL /\ last'.succ # NULL
        /\ Cardinality(Occupied(bbs[last'.succ])) < MAX_BB_PRED
        /\ SlotsEqual(bbs, last'.succ, last'.pred, last'.type) = {})
       => (/\ Cardinality(SlotsEqual(bbs', last'.succ, last'.pred, last'.type)) = 1
           /\ Field(bbs'[last'.pred], last'.type) = last'.succ)]_vars

\* A THEN edge between two different blocks has just been written, into a
\* slot other than the first.
C2_Witness ==
    /\ last.op = "bb_connect" /\ last.ret = "ok" /\ last.type = "THEN"
    /\ last.pred # last.succ
    /\ SlotsEqual(bbs, last.succ, last.pred, "THEN") \in {{1}, {2}}
    /\ bbs[last.pred].then_ = last.succ

\* What bb_disconnect(p, s) leaves when it removes the edge of kind k held in
\* slot i: no slot of s holds p, the field of p for k is null, and the other
\* fields of p and the other slots of s are as they were.
DisconnectPost(p, s, k, i) ==
    /\ SlotsHolding(bbs', s, p) = {}
    /\ Field(bbs'[p], k) = NULL
    /\ \A k2 \in ConnTypes \ {k} : Field(bbs'[p], k2) = Field(bbs[p], k2)
    /\ \A j \in DOMAIN bbs[s].prev \ {i} : bbs'[s].prev[j] = bbs[s].prev[j]

\* C3 as stated: bb_disconnect(p, s), called when an edge p->s of kind k
\* exists, leaves no slot of s.prev holding p and the successor field of p
\* for k null, and changes no other successor field of p and no other slot
\* of s.
C3_AnyState ==
    [][last'.op = "bb_disconnect" =>
         \A k \in ConnTypes :
            LET p == last'.pred
                s == last'.succ
                i == FoundSlot(bbs[s], p)
            IN  (/\ i # -1
                 /\ bbs[s].prev[i].type = k
                 /\ Field(bbs[p], k) = s)
                => DisconnectPost(p, s, k, i)]_vars

\* C3, amended: bb_disconnect(p, s), called when an edge p->s of kind k
\* exists and its slot is the only slot of s.prev that holds p, leaves no
\* slot of s.prev holding p and the successor field of p for k null, and
\* changes no other successor field of p and no other slot of s.
C3_DisconnectClearsEdge ==
    [][last'.op = "bb_disconnect" =>
         \A k \in ConnTypes :
            LET p == last'.pred
                s == last'.succ
                i == FoundSlot(bbs[s], p)
            IN  (/\ i # -1
                 /\ bbs[s].prev[i].type = k
                 /\ Field(bbs[p], k) = s
                 /\ Cardinality(SlotsHolding(bbs, s, p)) = 1)
                => DisconnectPost(p, s, k, i)]_vars

\* An ELSE edge was made in the second slot of a block and then removed,
\* while the edge in the first slot stays.
C3_Witness ==
    /\ last.op = "bb_disconnect"
    /\ calls = 3
    /\ contract
    /\ last.pred # last.succ
    /\ bbs[last.succ].prev[1] = [bb |-> NULL, type |-> "ELSE"]
    /\ bbs[last.succ].prev[0].bb # NULL
    /\ bbs[last.pred].else_ = NULL

\* Each ordered pair of blocks has at most one edge.
OneEdge ==
    \A p \in BBs, s \in BBs :
       /\ Cardinality(SlotsHolding(bbs, s, p)) <= 1
       /\ Cardinality({k \in ConnTypes : Field(bbs[p], k) = s}) <= 1

\* C4 as stated: in every state reachable by any sequence of bb_connect and
\* bb_disconnect calls each ordered pair (pred, succ) has at most one edge.
C4_AnySequence == OneEdge

\* C4, amended: in every state reachable by calls in which each bb_connect
\* respects its caller contract (the successor field it sets is null and the
\* pair is not connected yet), each ordered pair (pred, succ) has at most one
\* edge: at most one slot of succ.prev refers to pred and at most one of
\* pred.next, pred.then_, pred.else_ equals succ.
C4_OneEdge == contract => OneEdge

\* A block with two successors, both edges made under the contract, and a
\* third call that was a connection too.
C4_Witness ==
    /\ contract
    /\ calls = 3
    /\ last.op = "bb_connect" /\ last.ret = "ok"
    /\ \E p \in BBs : bbs[p].then_ # NULL /\ bbs[p].else_ # NULL
                         /\ bbs[p].then_ # bbs[p].else_

\* C5: bb_connect(pred, succ, type) called when all MAX_BB_PRED predecessor
\* slots of succ are occupied aborts without writing any slot of succ.prev or
\* any successor field of pred, and no block ever has more than MAX_BB_PRED
\* occupied slots.
C5_SeventhPredAborts ==
    [][/\ (/\ last'.op = "bb_connect"
            /\ last'.pred # NULL /\ last'.succ # NULL
            /\ Cardinality(Occupied(bbs[last'.succ])) >= MAX_BB_PRED)
           => (aborted' /\ last'.ret = "abort" /\ bbs' = bbs)
       /\ \A b \in 1 .. Len(bbs') :
             Cardinality(Occupied(bbs'[b])) <= MAX_BB_PRED]_vars

\* The seventh connection into a block whose six slots are occupied was
\* attempted and the process aborted.
C5_Witness ==
    /\ aborted
    /\ last.op = "bb_connect" /\ last.ret = "abort"
    /\ last.pred # NULL /\ last.succ # NULL
    /\ Cardinality(Occupied(bbs[last.succ])) = MAX_BB_PRED

\* -------------------------------------------------- the hashmap's claims

\* The value of the earliest put with key k, NULL if k was never put.
FirstPut(k) ==
    LET hit == {i \in 1 .. Len(puts) : puts[i].key = k}
    IN  IF hit = {} THEN NULL ELSE puts[Min(hit)].val

RECURSIVE ScopeChain(_)
ScopeChain(b) ==
    IF b = NULL THEN <<>> ELSE <<b>> \o ScopeChain(blocks[b].parent)

LocalsOf(b) == [i \in 1 .. Len(blocks[b].locals) |-> LocalVar(b, i)]

ParamsOf(fn) ==
    IF fn = NULL THEN <<>>
    ELSE [i \in 1 .. Len(funcs[fn].params) |-> ParamVar(fn, i)]

RECURSIVE LocalsAlong(_)
LocalsAlong(chain) ==
    IF chain = <<>> THEN <<>>
    ELSE LocalsOf(Head(chain)) \o LocalsAlong(Tail(chain))

\* The variables find_var is to consider for a lookup from block, in the
\* order the claim gives.
SearchOrder(block) ==
    LocalsAlong(ScopeChain(block)) \o ParamsOf(blocks[block].func)
      \o LocalsOf(BLOCKS.head)

VarName(v) ==
    IF v.kind = "local" THEN blocks[v.owner].locals[v.idx]
    ELSE funcs[v.owner].params[v.idx]

FirstNamed(order, token) ==
    LET hit == {i \in 1 .. Len(order) : VarName(order[i]) = token}
    IN  IF hit = {} THEN NullVar ELSE order[Min(hit)]

\* C7: find_var(token, block) returns the first variable named token among
\* the locals of block, the locals of its ancestors innermost first, the
\* parameters of block's function and the locals of the block at the head of
\* BLOCKS, in this order, and null only if none of them is named token.
C7_FindVarOrder ==
    last.op = "find_var" =>
       /\ last.ret = FirstNamed(SearchOrder(last.block), last.token)
       /\ (last.ret = NullVar) =
             (\A i \in 1 .. Len(SearchOrder(last.block)) :
                 VarName(SearchOrder(last.block)[i]) # last.token)

\* A lookup from a function's block found the block's own local, although
\* the global block has a local of that name too.
C7_Witness ==
    /\ last.op = "find_var"
    /\ last.ret = LocalVar(last.block, 1)
    /\ last.block # BLOCKS.head
    /\ blocks[last.block].parent = NULL
    /\ find_global_var(last.token) # NullVar
    /\ find_global_var(last.token) # last.ret

\* ------------------------------------------- the type table's claims

IsStruct(t) == t # NULL /\ TYPES[t].base_type = "struct"

\* A forward-declared typedef named name whose base_struct is entry t.
ForwardTypedefOf(name, t) ==
    \E i \in 1 .. Len(TYPES) :
        /\ TYPES[i].type_name = name
        /\ TYPES[i].base_type = "typedef"
        /\ TYPES[i].size = 0
        /\ TYPES[i].base_struct = t

OnlyTagsNamed(name) ==
    \A i \in 1 .. Len(TYPES) :
        TYPES[i].type_name = name => TYPES[i].base_type = "struct"

\* C8 as stated: find_type(name, 1) never returns an entry whose base_type is
\* struct, and find_type(name, 2) returns null or an entry whose base_type is
\* struct.
C8_NeverStruct ==
    last.op = "find_type" =>
       /\ last.flag = 1 => ~IsStruct(last.ret)
       /\ last.flag = 2 => (last.ret = NULL \/ IsStruct(last.ret))

\* C8: find_type(name, 1) returns an entry whose base_type is struct only as
\* the base_struct of a forward-declared typedef named name, and null when
\* every entry named name is a struct tag; find_type(name, 2) returns null or
\* an entry whose base_type is struct.
C8_StructOnlyThroughTypedef ==
    last.op = "find_type" =>
       /\ (last.flag = 1 /\ IsStruct(last.ret))
             => ForwardTypedefOf(last.name, last.ret)
       /\ (last.flag = 1 /\ OnlyTagsNamed(last.name)) => last.ret = NULL
       /\ last.flag = 2 => (last.ret = NULL \/ IsStruct(last.ret))

\* find_type(name, 1) was null although a struct tag of that name exists, and
\* the table also holds a forward-declared typedef.
C8_Witness ==
    /\ last.op = "find_type"
    /\ last.flag = 1
    /\ last.ret = NULL
    /\ \E i \in 1 .. Len(TYPES) :
          TYPES[i].type_name = last.name /\ TYPES[i].base_type = "struct"
    /\ \E i \in 1 .. Len(TYPES) :
          TYPES[i].base_type = "typedef" /\ TYPES[i].size = 0

\* The size the claim gives a variable that is neither pointer nor function:
\* the size of the entry find_type(name, 0) returns, the error if there is
\* none.
ClaimedTypeSize(var) ==
    IF find_type(var.type_name, 0) = NULL THEN SizeError("Incomplete type")
    ELSE SizeValue(TYPES[find_type(var.type_name, 0)].size)

ClaimedSize(var) ==
    LET base == IF var.is_ptr > 0 \/ var.is_func THEN SizeValue(4)
                ELSE ClaimedTypeSize(var)
    IN  IF base.kind = "value" /\ var.array_size > 0
        THEN SizeValue(base.v * var.array_size)
        ELSE base

\* C9: size_var(var) returns 4 for a pointer or a function, otherwise the size
\* of the type named var.type_name (of the referenced struct for a
\* forward-declared typedef), times array_size when that is positive, and it
\* raises "Incomplete type" when the name is not found.
C9_SizeVar == last.op = "size_var" => last.ret = ClaimedSize(last.var)

\* size_var on a variable of a forward-declared typedef whose struct is not
\* yet defined read the struct's base_struct, which nobody set, and faulted.
C9_Witness ==
    /\ last.op = "size_var"
    /\ last.ret = SizeFault
    /\ \E i \in 1 .. Len(TYPES) :
          /\ TYPES[i].type_name = last.var.type_name
          /\ TYPES[i].base_type = "typedef"
          /\ find_type(last.var.type_name, 0) = TYPES[i].base_struct
          /\ TYPES[TYPES[i].base_struct].size = 0

\* ------------------------------------------- the alias table's claims

Enabled(A, alias) == {i \in 1 .. Len(A) : ~A[i].disabled /\ A[i].alias = alias}

ValueOf(A, i) == IF i = NULL THEN "" ELSE A[i].value

\* C10 as stated: in any state remove_alias(X) leaves find_alias(X) null, and
\* an add_alias(X, v) after it makes find_alias(X) return v.
C10_AnyState ==
    [][ /\ last'.op = "remove_alias" => find_alias(ALIASES', last'.alias) = NULL
        /\ (/\ last'.op = "add_alias"
            /\ last'.after = [op |-> "remove_alias", alias |-> last'.alias])
              => ValueOf(ALIASES', find_alias(ALIASES', last'.alias))
                   = last'.value ]_vars

\* C10: in a state with at most one enabled entry named X, remove_alias(X)
\* leaves find_alias(X) null, and an add_alias(X, v) after it makes
\* find_alias(X) return v.
C10_RemoveThenAdd ==
    [][ /\ (/\ last'.op = "remove_alias"
            /\ Cardinality(Enabled(ALIASES, last'.alias)) <= 1)
              => find_alias(ALIASES', last'.alias) = NULL
        /\ (/\ last'.op = "add_alias"
            /\ last'.after = [op |-> "remove_alias", alias |-> last'.alias]
            /\ Enabled(ALIASES, last'.alias) = {})
              => ValueOf(ALIASES', find_alias(ALIASES', last'.alias))
                   = last'.value ]_vars

\* An alias was removed and added again with another value, and find_alias
\* gives the new value, past the disabled entry.
C10_Witness ==
    /\ last.op = "add_alias"
    /\ last.after = [op |-> "remove_alias", alias |-> last.alias]
    /\ find_alias(ALIASES, last.alias) = Len(ALIASES)
    /\ ALIASES[Len(ALIASES)].value = last.value
    /\ \E i \in 1 .. Len(ALIASES) - 1 :
          /\ ALIASES[i].alias = last.alias
          /\ ALIASES[i].disabled
          /\ ALIASES[i].value # last.value

\* ------------------------------------------- the symbol list's claim

\* The symbols of bb's list, from the head along next.
SymbolList(bb) == SymbolsFrom(lists[bb].symbol_list.head)

\* The variables of bb's list, in list order.
SymbolVars(bb) ==
    [i \in 1 .. Len(SymbolList(bb)) |-> symbols[SymbolList(bb)[i]].var]

\* Every list holds distinct variables, position i (from 0) has index i, and
\* the tail is the last symbol.
SymbolListsWellFormed ==
    \A bb \in 1 .. Len(lists) :
       LET l == SymbolList(bb) IN
       /\ \A i, j \in 1 .. Len(l) :
             symbols[l[i]].var = symbols[l[j]].var => i = j
       /\ \A i \in 1 .. Len(l) : symbols[l[i]].index = i - 1
       /\ lists[bb].symbol_list.tail = (IF l = <<>> THEN NULL ELSE l[Len(l)])

\* C11: after any sequence of add_symbol calls a block's symbol list holds
\* each distinct variable once, in order of first insertion, the symbol at
\* position i (from 0) having index i; add_symbol(bb, v) for a v already in
\* the list leaves the list, its tail and all indices unchanged, and for a new
\* v appends it.
C11_SymbolList ==
    [][ /\ SymbolListsWellFormed'
        /\ \A b \in 1 .. Len(lists), v \in SymVars :
              (last'.op = "add_symbol" /\ last'.bb = b /\ last'.var = v) =>
                 IF \E i \in 1 .. Len(SymbolVars(b)) : SymbolVars(b)[i] = v
                 THEN symbols' = symbols /\ lists' = lists
                 ELSE /\ SymbolVars(b)' = Append(SymbolVars(b), v)
                      /\ \A bb \in 1 .. Len(lists) :
                            bb # b => SymbolVars(bb)' = SymbolVars(bb)
      ]_vars

\* add_symbol was called again for the first variable of a list of two.
C11_Witness ==
    /\ last.op = "add_symbol"
    /\ last.bb # NULL
    /\ Len(SymbolList(last.bb)) = 2
    /\ SymbolVars(last.bb)[1] = last.var
    /\ symbols[SymbolList(last.bb)[2]].index = 1
    /\ Len(symbols) > 2

\* --------------------------------------------------- liveness's claim

Max2(a, b) == IF a >= b THEN a ELSE b

SetMax(S) == CHOOSE x \in S : \A y \in S : y <= x

\* C12: each call set_var_liveout(v, e) leaves v.liveness equal to the
\* maximum of its previous value and e, and no other liveness changed; hence
\* a liveness never decreases and always equals the maximum of its first value
\* and all ends passed so far.
C12_LivenessIsMax ==
    [][ /\ \A v \in DOMAIN liveness, e \in Ends :
              (/\ last'.op = "set_var_liveout"
               /\ last'.var = v
               /\ last'.end = e)
                 => /\ liveness'[v] = Max2(liveness[v], e)
                    /\ \A w \in DOMAIN liveness :
                          w # v => liveness'[w] = liveness[w]
        /\ \A v \in DOMAIN liveness : liveness'[v] >= liveness[v]
        /\ \A v \in DOMAIN liveness' : liveness'[v] = SetMax(ends'[v])
      ]_vars

\* A variable was raised, and a later call with a lower end left it alone.
C12_Witness ==
    /\ last.op = "set_var_liveout"
    /\ last.end < liveness[last.var]
    /\ Cardinality(ends[last.var]) >= 3
    /\ DOMAIN liveness = LiveVars
    /\ \E w \in LiveVars : liveness[w] # liveness[last.var]

\* -------------------------------------------------- the block list's claim

\* C13: after global_init and any sequence of add_block calls, following next
\* from BLOCKS.head visits exactly the blocks created, each once, in creation
\* order, ends at BLOCKS.tail, the block added last, and then terminates; the
\* block added first stays at the head.
C13_WalkEndsAtTail ==
    /\ BLOCKS.head # NULL =>
          /\ BLOCKS.head = 1
          /\ BLOCKS.tail = Len(blocks)
    /\ last.op = "global_release" =>
          /\ last.freed = [i \in 1 .. Len(blocks) |-> i]
          /\ last.ret = "done"

\* The walk of global_release went through both blocks in creation order and
\* then on, behind the last block.
C13_Witness ==
    /\ last.op = "global_release"
    /\ last.freed = <<1, 2>>
    /\ last.ret = "fault"
    /\ blocks[2].next = WILD

\* ------------------------------------------------------ the arenas' claims

\* C14: each of add_global_ir(op), add_ph1_ir(op) and add_ph2_ir(op) writes at
\* the current index of its own arena, increments only that arena's index, by
\* one, and returns an instruction whose opcode is op and whose every other
\* field is zero, whatever the arena held before.
C14_ZeroedInstruction ==
    [][ \A a \in IRArenas :
           (last'.op = "add_ir" /\ last'.arena = a) =>
              /\ last'.slot = Len(ir[a])
              /\ Len(ir'[a]) = Len(ir[a]) + 1
              /\ \A b \in IRArenas : b # a => ir'[b] = ir[b]
              /\ idxs' = idxs
              /\ Len(TYPES') = Len(TYPES)
              /\ Len(ALIASES') = Len(ALIASES)
              /\ ir'[a][last'.slot + 1] = last'.ret
              /\ last'.ret.op = last'.opcode
              /\ last'.ret.rest = "zero"
      ]_vars

\* add_ph2_ir handed out the arena's second entry with its opcode set and the
\* rest as malloc left it.
C14_Witness ==
    /\ last.op = "add_ir"
    /\ last.arena = "PH2_IR"
    /\ last.slot = 1
    /\ last.ret.op = last.opcode
    /\ last.ret.rest = "junk"
    /\ ~aborted

\* C20: after global_init and any sequence of add_type, add_alias, add_macro,
\* add_constant, add_label, add_global_ir, add_ph1_ir and add_ph2_ir calls
\* every table's index is at or below the capacity global_init allocated for
\* it, so that every write lands inside the table's storage.
C20_WithinCapacity ==
    /\ Len(TYPES) <= CapacityOf("TYPES")
    /\ Len(ALIASES) <= CapacityOf("ALIASES")
    /\ \A t \in IndexedTables : idxs[t] <= CapacityOf(t)
    /\ \A a \in IRArenas : Len(ir[a]) <= CapacityOf(a)

\* add_type was called once more than TYPES has entries, and the run goes on.
C20_Witness ==
    /\ ~hm.null
    /\ last.op = "add_type"
    /\ last.ret = MAX_TYPES + 1
    /\ Len(TYPES) = MAX_TYPES + 1
    /\ ~aborted

\* ----------------------------------------------- the hash functions' claims

\* The least power of two that is at least n.
LeastPow2(n) ==
    CHOOSE p \in Pow2s : p >= n /\ \A q \in Pow2s : q >= n => p <= q

\* C15: for 1 <= v <= 2^30 round_up_pow2(v) is the least power of two that is
\* at least v, and hashmap_create(size) creates that many empty buckets.
C15_LeastPowerOfTwo ==
    /\ last.op = "round_up_pow2" =>
          /\ last.ret \in Pow2s
          /\ last.ret >= last.v
          /\ \A q \in Pow2s : q >= last.v => last.ret <= q
    /\ last.op = "hashmap_create" =>
          /\ ~hm.null
          /\ hm.size = LeastPow2(last.size)
          /\ DOMAIN hm.buckets = 0 .. (LeastPow2(last.size) - 1)
          /\ \A i \in DOMAIN hm.buckets : hm.buckets[i] = <<>>

\* round_up_pow2 was applied to 2^29 + 1 and gave 2^30.
C15_Witness ==
    /\ last.op = "round_up_pow2"
    /\ last.v = (2 ^ 29) + 1
    /\ last.ret = 2 ^ 30

\* C16: for every key and every power-of-two size >= 1,
\* hashmap_hash_index(size, key) is an index i with 0 <= i < size, the hash
\* being computed in wrapping 32-bit arithmetic, also when the hash is the
\* least int, which folding leaves negative.
C16_IndexInRange ==
    last.op = "hashmap_hash_index" =>
       /\ 0 <= last.ret
       /\ last.ret < last.size

\* The index of the key whose hash is the least int, which folds to itself,
\* in a map of 2^30 buckets.
C16_Witness ==
    /\ last.op = "hashmap_hash_index"
    /\ last.size = 2 ^ 30
    /\ FNV1a(<<FNV_BASIS_HI, FNV_BASIS_LO>>, last.key) = <<32768, 0>>
    /\ FoldSign(<<32768, 0>>) = <<32768, 0>>
    /\ last.ret = 0

\* C17: hashmap_contains(map, key) is true if an entry with that key has been
\* put into the map and false otherwise, whatever value the entry holds, the
\* null value included.
C17_ContainsIffPut ==
    ~hm.null =>
       \A key \in Keys :
          hashmap_contains(hm, key) = (\E i \in 1 .. Len(puts) : puts[i].key = key)

\* A key was put with the null value, and hashmap_contains denies the entry.
C17_Witness ==
    /\ ~hm.null
    /\ last.op = "hashmap_put"
    /\ last.val = NULL
    /\ Len(puts) = 1
    /\ ChainFind(hm.buckets[hashmap_hash_index(hm.size, last.key)], last.key) = 1
    /\ ~hashmap_contains(hm, last.key)

\* ------------------------------------------------ the macro lookup's claim

\* C18: find_macro_param_src_idx(name, parent) raises the fatal error about
\* macro expansion in the global scope when parent is null, reaching error()
\* and failing in no other way; it returns 0 when parent.macro is null, and
\* otherwise macro.params[i] for the first parameter named name, 0 if there
\* is none.
C18_NullParentRaises ==
    last.op = "find_macro_param_src_idx" =>
       last.ret =
          IF last.parent.null
          THEN Raised("The macro expansion is not supported in the global scope")
          ELSE IF last.parent.macro.null THEN Returned(0)
          ELSE IF \A i \in 1 .. Len(last.parent.macro.param_defs) :
                     last.parent.macro.param_defs[i] # last.name
               THEN Returned(0)
               ELSE Returned(last.parent.macro.params[
                       Min({i \in 1 .. Len(last.parent.macro.param_defs) :
                              last.parent.macro.param_defs[i] = last.name})])

\* The call with a null parent ended in the read of parent->macro.
C18_Witness ==
    /\ last.op = "find_macro_param_src_idx"
    /\ last.parent = NoBlock
    /\ last.ret = Faulted
    /\ aborted

\* -------------------------------------------- the instruction list's claim

\* The instructions met from n along next.
RECURSIVE InsnsFrom(_)
InsnsFrom(n) ==
    IF n = NULL THEN <<>> ELSE <<n>> \o InsnsFrom(insns[n].next)

InsnList(bb) == InsnsFrom(lists[bb].insn_list.head)

\* The instructions added to bb, in call order.
RECURSIVE AddedTo(_, _)
AddedTo(bb, n) ==
    IF n > Len(insns) THEN <<>>
    ELSE (IF insns[n].belong_to = bb THEN <<n>> ELSE <<>>) \o AddedTo(bb, n + 1)

InsnListsWellFormed ==
    \A bb \in 1 .. Len(lists) :
       LET l == InsnList(bb) IN
       /\ l = AddedTo(bb, 1)
       /\ lists[bb].insn_list.tail = (IF l = <<>> THEN NULL ELSE l[Len(l)])
       /\ l # <<>> => insns[l[1]].prev = NULL
       /\ \A i \in 2 .. Len(l) :
             /\ insns[l[i]].prev # NULL
             /\ insns[insns[l[i]].prev].next = l[i]
       /\ \A i \in 1 .. Len(l) : insns[l[i]].belong_to = bb

\* C19: after any sequence of add_insn calls with a non-null bb, bb.insn_list
\* is a well-formed doubly-linked list: next from head yields the instructions
\* in call order and ends at tail, head.prev is null, n.prev.next is n for
\* every other instruction n, and every instruction's belong_to is bb; a call
\* with a null bb changes nothing.
C19_InsnList ==
    [][ /\ InsnListsWellFormed'
        /\ (last'.op = "add_insn" /\ last'.bb = NULL) =>
              insns' = insns /\ lists' = lists /\ bbs' = bbs
        /\ \A b \in 1 .. Len(lists) :
              (last'.op = "add_insn" /\ last'.bb = b) =>
                 /\ InsnList(b)' = Append(InsnList(b), Len(insns) + 1)
                 /\ insns'[Len(insns) + 1].opcode = last'.opcode
      ]_vars

\* The third instruction went behind the first in one block, the second being
\* in the other block.
C19_Witness ==
    /\ last.op = "add_insn"
    /\ last.bb # NULL
    /\ Len(insns) = 3
    /\ InsnList(last.bb) = <<1, 3>>
    /\ insns[3].prev = 1
    /\ insns[2].belong_to # last.bb


\* ------------------------------------------------------------------- C21

C21_PH1 == ir["PH1_IR"]

\* The number of OP_block_start minus the number of OP_block_end among the
\* instructions before the i-th.
RECURSIVE C21_Depth(_)
C21_Depth(i) ==
    IF i <= 1 THEN 0
    ELSE C21_Depth(i - 1)
           + (IF C21_PH1[i - 1].op = "OP_block_start" THEN 1
              ELSE IF C21_PH1[i - 1].op = "OP_block_end" THEN -1 ELSE 0)

C21_Bracketed ==
    /\ \A i \in 1 .. Len(C21_PH1) + 1 : C21_Depth(i) >= 0
    /\ C21_Depth(Len(C21_PH1) + 1) = 0

C21_Recognized ==
    {"OP_define", "OP_block_start", "OP_block_end", "OP_label", "OP_return",
     "OP_add"}

\* The level the i-th line is indented to.
C21_Level(i) ==
    CASE C21_PH1[i].op \in {"OP_define", "OP_label"} -> 0
      [] C21_PH1[i].op = "OP_block_end" -> C21_Depth(i) - 1
      [] OTHER -> C21_Depth(i)

\* The line is the one of this instruction.
C21_Shows(e, text) ==
    CASE e.op = "OP_define" ->
            Len(text) = 3 /\ text[1] = "def" /\ text[2] = e.rest.func_name
      [] e.op = "OP_block_start" -> text = <<"{">>
      [] e.op = "OP_block_end" -> text = <<"}">>
      [] e.op = "OP_label" -> text = <<e.rest.src0>>
      [] e.op = "OP_return" ->
            text = (IF e.rest.src0 = "" THEN <<"ret">>
                    ELSE <<"ret", e.rest.src0>>)
      [] e.op = "OP_add" ->
            text = <<e.rest.dest, "=", "add", e.rest.src0, e.rest.src1>>
      [] OTHER -> text = <<>>

\* C21: dump_ph1_ir prints one line per instruction of PH1_IR, in index
\* order, and then the line "==="; the line of an instruction is indented
\* by the number of OP_block_start minus the number of OP_block_end before
\* it, an OP_block_end one level less, an OP_label and an OP_define not at
\* all; the counter ends at that difference, so in a bracketed stream it is
\* never negative and ends at 0; an opcode without a case gives an empty
\* line.
C21_DumpLines ==
    last.op = "dump_ph1_ir" =>
        /\ Len(last.out) = Len(C21_PH1) + 1
        /\ last.out[Len(last.out)] = [tabs |-> 0, text |-> <<"===">>]
        /\ \A i \in 1 .. Len(C21_PH1) :
              /\ C21_Shows(C21_PH1[i], last.out[i].text)
              /\ C21_PH1[i].op \in C21_Recognized =>
                    last.out[i].tabs = Tabs(C21_Level(i))
              /\ C21_PH1[i].op \notin C21_Recognized =>
                    last.out[i] = [tabs |-> 0, text |-> <<>>]
        /\ last.indent = C21_Depth(Len(C21_PH1) + 1)
        /\ C21_Bracketed =>
              /\ last.indent = 0
              /\ \A i \in 1 .. Len(C21_PH1) :
                    C21_PH1[i].op \in C21_Recognized => C21_Level(i) >= 0

\* A bracketed stream with a value returned inside the block and an opcode
\* without a case has been dumped.
C21_Witness ==
    /\ last.op = "dump_ph1_ir"
    /\ C21_Bracketed
    /\ \E i, j, k \in 1 .. Len(C21_PH1) :
          /\ C21_PH1[i].op = "OP_return" /\ last.out[i].tabs = 1
          /\ C21_PH1[j].op = "OP_block_end" /\ last.out[j].tabs = 0
          /\ C21_PH1[k].op = "OP_load"


\* ------------------------------------------------------------------- C22

\* The entries FUNCS_MAP holds under the name, over all buckets.
C22_Entries(name) ==
    {<<b, i>> \in (0 .. (hm.size - 1)) \X (1 .. Len(puts)) :
        i <= Len(hm.buckets[b]) /\ hm.buckets[b][i].key = name}

\* The names passed to add_func so far, global_init's "" included, and the
\* function the first call with the name returned.
C22_Passed == {puts[i].key : i \in 1 .. Len(puts)}
C22_First(name) ==
    puts[Min({i \in 1 .. Len(puts) : puts[i].key = name})].val

\* C22: once global_init has run, FUNCS_MAP holds one entry for each name
\* passed to add_func ("" of global_init included) and none for another
\* name; add_func returns, for a name passed before, the function the first
\* call returned; find_func returns that function too; and the function
\* add_func returns has stack_size 4, on the first call and on a repeated
\* one.
C22_OneFunctionPerName ==
    ~hm.null =>
        /\ \A name \in Keys :
              /\ Cardinality(C22_Entries(name))
                    = (IF name \in C22_Passed THEN 1 ELSE 0)
              /\ find_func(name)
                    = (IF name \in C22_Passed THEN C22_First(name) ELSE NULL)
        /\ <<>> \in C22_Passed
        /\ Len(puts) = Len(funcs)
        /\ last.op = "add_func" =>
              /\ last.name \in C22_Passed
              /\ last.ret = C22_First(last.name)
              /\ last.ret = find_func(last.name)
              /\ funcs[last.ret].stack_size = 4
        /\ last.op = "find_func" /\ last.name \in C22_Passed =>
              last.ret = C22_First(last.name)

\* add_func has just been repeated for a name whose function had grown its
\* stack, beside a function registered in the same bucket.
C22_Witness ==
    /\ ~hm.null
    /\ last.op = "add_func"
    /\ last.ret < Len(funcs)
    /\ Len(puts) = Len(funcs)
    /\ \E fn \in FuncIds : funcs[fn].stack_size > 4
    /\ \E other \in C22_Passed \ {last.name} :
          hashmap_hash_index(hm.size, other)
             = hashmap_hash_index(hm.size, last.name)


\* ------------------------------------------------------------------- C23

\* The enabled entries of the table T that carry the name x.
C23_EnabledAliases(T, x) ==
    {i \in 1 .. Len(T) : ~T[i].disabled /\ T[i].alias = x}
C23_EnabledMacros(T, x) ==
    {i \in 1 .. Len(T) : ~T[i].disabled /\ T[i].name = x}

\* The table T2 is T with the disabled flag of entry k set and nothing else
\* changed.
C23_OnlyDisabled(T, T2, k) ==
    /\ Len(T2) = Len(T)
    /\ \A i \in 1 .. Len(T) :
          T2[i] = (IF i = k THEN [T[i] EXCEPT !.disabled = TRUE] ELSE T[i])

\* C23: remove_alias(x) returns true exactly when an enabled alias named x
\* exists, and then sets the disabled flag of the lowest-indexed such entry
\* and changes nothing else; otherwise it returns false and the table is as
\* it was.  remove_macro(x) does the same with the macro table.  No call
\* enables an entry again.
C23_RemoveDisablesFirst ==
    [][ /\ \A x \in AliasNames :
              (last'.op = "remove_alias" /\ last'.alias = x) =>
                 /\ last'.ret = (C23_EnabledAliases(ALIASES, x) # {})
                 /\ IF C23_EnabledAliases(ALIASES, x) = {}
                    THEN ALIASES' = ALIASES
                    ELSE C23_OnlyDisabled(ALIASES, ALIASES',
                                          Min(C23_EnabledAliases(ALIASES, x)))
                 /\ MACROS' = MACROS
                 /\ idxs' = idxs
        /\ \A x \in AliasNames :
              (last'.op = "remove_macro" /\ last'.name = x) =>
                 /\ last'.ret = (C23_EnabledMacros(MACROS, x) # {})
                 /\ IF C23_EnabledMacros(MACROS, x) = {}
                    THEN MACROS' = MACROS
                    ELSE C23_OnlyDisabled(MACROS, MACROS',
                                          Min(C23_EnabledMacros(MACROS, x)))
                 /\ ALIASES' = ALIASES
                 /\ idxs' = idxs
        /\ \A i \in 1 .. Len(ALIASES) :
              ALIASES[i].disabled => ALIASES'[i].disabled
        /\ \A i \in 1 .. Len(MACROS) :
              MACROS[i].disabled => MACROS'[i].disabled ]_vars

\* remove_alias has just disabled the second of two aliases of one name, the
\* first being disabled already, beside a macro that remove_macro disabled.
C23_Witness ==
    /\ last.op = "remove_alias"
    /\ last.ret
    /\ Len(ALIASES) = 2
    /\ ALIASES[1].alias = last.alias /\ ALIASES[2].alias = last.alias
    /\ ALIASES[1].disabled /\ ALIASES[2].disabled
    /\ Len(MACROS) = 1
    /\ MACROS[1].disabled


\* ------------------------------------------------------------------- C24

\* C24: bb_disconnect(pred, succ) returns without aborting; when no slot of
\* succ.prev holds pred it leaves every block as it was, predecessor slots
\* and successor fields alike; when one or several slots hold pred it clears
\* the lowest-indexed of them and no other slot of any block.
C24_DisconnectFirstSlot ==
    [][last'.op = "bb_disconnect" =>
         LET p == last'.pred
             s == last'.succ
             held == SlotsHolding(bbs, s, p)
         IN  /\ ~aborted'
             /\ last'.ret = "ok"
             /\ Len(bbs') = Len(bbs)
             /\ held = {} => bbs' = bbs
             /\ held # {} =>
                   /\ bbs'[s].prev = [bbs[s].prev EXCEPT ![Min(held)].bb = NULL]
                   /\ SlotsHolding(bbs', s, p) = held \ {Min(held)}
                   /\ \A b \in BBs \ {s} : bbs'[b].prev = bbs[b].prev]_vars

\* Two slots of a block held the same predecessor; bb_disconnect has emptied
\* the first of them and the second still holds it.
C24_Witness ==
    /\ last.op = "bb_disconnect"
    /\ calls = 3
    /\ bbs[last.succ].prev[0].bb = NULL
    /\ bbs[last.succ].prev[1].bb = last.pred
    /\ last.pred # last.succ

====
